---- MODULE Spec2Model ----
(***************************************************************************)
(* Safe move of the iCloud mail MCP server (index.js): the move manifest,  *)
(* fingerprinting, the retry policy and the copy -> verify -> delete loop  *)
(* of safeMoveEmails, run by concurrent tool invocations against one mail  *)
(* store and one manifest file.                                            *)
(*                                                                         *)
(* Sizes are scaled: CHUNK_SIZE (250 in the source) and CHUNK_SIZE_RETRY   *)
(* (100) keep their order and the shape "a full chunk is one sub-batch at  *)
(* the first attempt and several at the retry".  Timestamps are readings   *)
(* of one clock, now.  JavaScript null is Null where an object may stand   *)
(* and NullStr where a string may stand.                                   *)
(***************************************************************************)
EXTENDS Integers, Sequences, FiniteSets, TLC

\* ---------------------------------------------------------------- bounds
MaxUids == 3
MaxNow == 2
MaxFaults == 1
LongUids == 5
MaxOps == 6
MaxLogNow == 4
TermFaults == 3

\* ------------------------------------------------------- program constants
MAX_HISTORY == 5
CHUNK_SIZE == 2
CHUNK_SIZE_RETRY == 1
DefaultMaxAttempts == 3
VerifyMargin == 500

Uids == 1..MaxUids
\* Two invocations of bulk_move: one running a move, one arriving meanwhile.
Procs == {1, 2}

Null == [null |-> TRUE]
NullStr == "null"

Min(a, b) == IF a < b THEN a ELSE b
Max(a, b) == IF a > b THEN a ELSE b

\* Array.prototype.slice(from, to) on a 0-based array, as a 1-based sequence.
Slice(s, from, to) == SubSeq(s, from + 1, Min(to, Len(s)))

Range(s) == {s[i] : i \in DOMAIN s}

RECURSIVE SortedSeq(_)
SortedSeq(S) ==
    IF S = {} THEN <<>>
    ELSE LET m == CHOOSE x \in S : \A y \in S : x <= y
         IN <<m>> \o SortedSeq(S \ {m})

\* ------------------------------------------------------------ the mail store
\* Text taken from a message is a sequence of string tokens, so that joining
\* is concatenation; NullText is JavaScript null where such text may stand.
NullText == <<"null">>
EmptyText == <<>>

Alice == <<"alice@example.com">>
Bob == <<"bob@example.com">>

\* The message with uid u in the source mailbox.  Odd uids carry a global
\* Message-ID, even ones none, so both branches of the identity key occur;
\* every fourth message has no date; the first two are from one sender.
MessageOf(u) ==
    [uid |-> u,
     envelope |-> [messageId |-> IF u % 2 = 1 THEN <<"mid", ToString(u)>> ELSE NullText,
                   from |-> IF u <= 2 THEN Alice ELSE Bob,
                   date |-> IF u % 4 = 0 THEN NullText ELSE <<"2024-01-01">>,
                   subject |-> <<"subject", ToString(u)>>]]

\* ------------------------------------------------------------ fingerprinting
\* [sender, date, subject].join('|')
JoinBar(a, b, c) == a \o <<"|">> \o b \o <<"|">> \o c

\* What imapflow hands over for a Date header it cannot parse: new Date(...)
\* of it is an invalid date.
InvalidDate == <<"Invalid Date">>

\* new Date(msg.envelope.date).toISOString() throws a RangeError on an
\* invalid date.
buildFingerprintThrows(msg) == msg.envelope.date = InvalidDate

buildFingerprint(msg) ==
    LET messageId == msg.envelope.messageId
        sender == IF msg.envelope.from # NullText THEN msg.envelope.from ELSE EmptyText
        date == IF msg.envelope.date # NullText THEN <<"iso">> \o msg.envelope.date ELSE EmptyText
        subject == IF msg.envelope.subject # NullText THEN msg.envelope.subject ELSE EmptyText
    IN [uid |-> msg.uid, messageId |-> messageId, fallback |-> JoinBar(sender, date, subject)]

\* A key that never uses the Message-ID.
fingerprintToKeyFallbackOnly(fp) == fp.fallback

\* fp.messageId ?? fp.fallback
fingerprintToKey(fp) == IF fp.messageId # NullText THEN fp.messageId ELSE fp.fallback

\* ------------------------------------------------------------- the manifest
EmptyManifest == [current |-> Null, history |-> <<>>]

\* An archive that pushes at the end of the history.
archiveCurrentAtEnd(data) ==
    IF data.current # Null
    THEN LET h == data.history \o <<data.current>>
         IN [current |-> Null,
             history |-> IF Len(h) > MAX_HISTORY THEN SubSeq(h, 1, MAX_HISTORY) ELSE h]
    ELSE data

archiveCurrent(data) ==
    IF data.current # Null
    THEN LET h == <<data.current>> \o data.history
         IN [current |-> Null,
             history |-> IF Len(h) > MAX_HISTORY THEN SubSeq(h, 1, MAX_HISTORY) ELSE h]
    ELSE data

\* A count that leaves out a last chunk that is not full.
NumChunksFloor(n) == n \div CHUNK_SIZE

NumChunks(n) == (n + CHUNK_SIZE - 1) \div CHUNK_SIZE

NewChunk(uids, k) ==
    [index |-> k,
     uids |-> Slice(uids, k * CHUNK_SIZE, k * CHUNK_SIZE + CHUNK_SIZE),
     fingerprints |-> <<>>,
     status |-> "pending",
     copiedAt |-> 0,
     verifiedAt |-> 0,
     deletedAt |-> 0,
     failureReason |-> NullStr]

\* chunks[k + 1] is the chunk with index k.
NewOperation(source, target, uids, t) ==
    [operationId |-> t,
     startedAt |-> t,
     updatedAt |-> t,
     source |-> source,
     target |-> target,
     totalUids |-> Len(uids),
     status |-> "in_progress",
     failureReason |-> NullStr,
     chunks |-> [k \in 1..NumChunks(Len(uids)) |-> NewChunk(uids, k - 1)],
     summary |-> [chunksComplete |-> 0, emailsMoved |-> 0,
                  emailsPending |-> Len(uids), emailsFailed |-> 0]]

\* A guard that compares with a status no operation ever has.
startOperationConflictTypo(data) ==
    data.current # Null /\ data.current.status = "in-progress"

startOperationConflict(data) ==
    data.current # Null /\ data.current.status = "in_progress"

\* The manifest written by startOperation when it does not throw.
startOperation(data, source, target, uids, t) ==
    [archiveCurrent(data) EXCEPT !.current = NewOperation(source, target, uids, t)]

ChunksWithStatus(chunks, st) == {i \in DOMAIN chunks : chunks[i].status = st}

RECURSIVE SumSizes(_, _)
SumSizes(chunks, I) ==
    IF I = {} THEN 0
    ELSE LET i == CHOOSE j \in I : TRUE
         IN Len(chunks[i].uids) + SumSizes(chunks, I \ {i})

Rollup(chunks) ==
    LET done == ChunksWithStatus(chunks, "complete")
        bad == ChunksWithStatus(chunks, "failed")
    IN [chunksComplete |-> Cardinality(done),
        emailsMoved |-> SumSizes(chunks, done),
        emailsPending |-> SumSizes(chunks, (DOMAIN chunks \ done) \ bad),
        emailsFailed |-> SumSizes(chunks, bad)]

\* updateManifest and updateChunk dereference data.current and the chunk at
\* the index: a TypeError is thrown when either is missing.
updateThrows(data, index) ==
    data.current = Null \/ index + 1 \notin DOMAIN data.current.chunks

\* updateManifest((data) => { c.fingerprints = [...c.fingerprints, ...fps]; c.status = 'pending' })
persistFingerprints(data, index, fps, t) ==
    [data EXCEPT !.current.chunks[index + 1].fingerprints = @ \o fps,
                 !.current.chunks[index + 1].status = "pending",
                 !.current.updatedAt = t]

\* updates is a record holding a subset of a chunk's fields (Object.assign).
updateChunk(data, index, updates, t) ==
    LET old == data.current.chunks[index + 1]
        new == [f \in DOMAIN old |-> IF f \in DOMAIN updates THEN updates[f] ELSE old[f]]
        chunks == [data.current.chunks EXCEPT ![index + 1] = new]
    IN [data EXCEPT !.current.chunks = chunks,
                    !.current.summary = Rollup(chunks),
                    !.current.updatedAt = t]

\* A completion that marks the operation and leaves it in the current slot.
completeOperationInPlace(data, t) ==
    IF data.current = Null THEN data
    ELSE [data EXCEPT !.current.status = "complete", !.current.updatedAt = t]

completeOperation(data, t) ==
    IF data.current = Null THEN data
    ELSE archiveCurrent([data EXCEPT !.current.status = "complete",
                                     !.current.updatedAt = t])

failOperation(data, reason, t) ==
    IF data.current = Null THEN data
    ELSE archiveCurrent([data EXCEPT !.current.status = "failed",
                                     !.current.failureReason = reason,
                                     !.current.updatedAt = t])

\* An answer computed without the check for an empty current slot: reading
\* data.current.status then throws.
abandonMoveResultNoNullCheck(data) ==
    IF data.current = Null
    THEN [error |-> "TypeError"]
    ELSE IF data.current.status # "in_progress"
    THEN [abandoned |-> FALSE, message |-> "Current operation is already terminal"]
    ELSE [abandoned |-> TRUE, operationId |-> data.current.operationId]

abandonMoveResult(data) ==
    IF data.current = Null
    THEN [abandoned |-> FALSE, message |-> "No in-progress operation to abandon"]
    ELSE IF data.current.status # "in_progress"
    THEN [abandoned |-> FALSE, message |-> "Current operation is already terminal"]
    ELSE [abandoned |-> TRUE, operationId |-> data.current.operationId]

\* An abandon that marks the operation and leaves it in the current slot.
abandonMoveNoArchive(data, t) ==
    IF data.current = Null \/ data.current.status # "in_progress" THEN data
    ELSE [data EXCEPT !.current.status = "abandoned", !.current.updatedAt = t]

abandonMove(data, t) ==
    IF data.current = Null \/ data.current.status # "in_progress" THEN data
    ELSE archiveCurrent([data EXCEPT !.current.status = "abandoned",
                                     !.current.updatedAt = t])

summarizeOp(op) ==
    [operationId |-> op.operationId, status |-> op.status, source |-> op.source,
     target |-> op.target, startedAt |-> op.startedAt,
     moved |-> op.summary.emailsMoved, failed |-> op.summary.emailsFailed,
     total |-> op.totalUids]

formatOperation(op) ==
    [operationId |-> op.operationId, status |-> op.status, source |-> op.source,
     target |-> op.target, startedAt |-> op.startedAt, updatedAt |-> op.updatedAt,
     summary |-> op.summary,
     failedChunks |-> {[index |-> op.chunks[i].index, uids |-> Len(op.chunks[i].uids),
                        reason |-> op.chunks[i].failureReason] :
                       i \in ChunksWithStatus(op.chunks, "failed")}]

getMoveStatus(data) ==
    IF data.current = Null
    THEN [status |-> "no_operation",
          history |-> [i \in DOMAIN data.history |-> summarizeOp(data.history[i])]]
    ELSE [current |-> formatOperation(data.current),
          history |-> [i \in DOMAIN data.history |-> summarizeOp(data.history[i])]]

\* ------------------------------------------------------------- retry policy
\* Error messages the mail store raises in this model.
Errors == {"ECONNRESET", "Mailbox does not exist"}

TransientMarkers ==
    {"ECONNRESET", "ECONNREFUSED", "ETIMEDOUT", "EPIPE", "socket hang up",
     "Connection not available", "BAD", "NO "}

isTransient(err) == err \in TransientMarkers


\* A catch block that does not look at the kind of error.
withRetryRethrowsAtCap(err, attempt, maxAttempts) ==
    attempt = maxAttempts

\* withRetry's catch block: rethrow, or wait and go round the loop again.
withRetryRethrows(err, attempt, maxAttempts) ==
    ~isTransient(err) \/ attempt = maxAttempts

\* ------------------------------------------------------ mail-store helpers
\* client.fetch(uids, ..., {uid: true}) yields the messages that exist.
fetchEnvelopes(mailbox, uids) ==
    LET present == SelectSeq(uids, LAMBDA u : u \in mailbox)
    IN [i \in DOMAIN present |-> MessageOf(present[i])]

\* client.messageCopy(uids, target, {uid: true}): copies land at the end.
copyChunk(sourceBox, targetBox, uids) ==
    targetBox \o SelectSeq(uids, LAMBDA u : u \in sourceBox)

\* A delete that takes the numbers for sequence numbers (no {uid: true}).
deleteChunkBySeq(sourceBox, uids) ==
    LET box == SortedSeq(sourceBox)
    IN sourceBox \ {box[i] : i \in Range(uids) \cap DOMAIN box}

\* client.messageDelete(uids, {uid: true})
deleteChunk(sourceBox, uids) == sourceBox \ Range(uids)

\* A verification that looks at nothing.
verifyNothing(targetBox, total, expectedFingerprints) ==
    [verified |-> TRUE, missing |-> <<>>,
     found |-> Len(expectedFingerprints), expected |-> Len(expectedFingerprints)]

\* total is mb.exists as the server reports it for the opened target.
verifyFingerprintsInTarget(targetBox, total, expectedFingerprints) ==
    LET fetchCount == Min(total, Len(expectedFingerprints) * 2 + VerifyMargin)
        start == Max(1, total - fetchCount + 1)
        targetKeys == {fingerprintToKey(buildFingerprint(MessageOf(targetBox[i]))) :
                         i \in start..total}
        missing == SelectSeq(expectedFingerprints,
                             LAMBDA fp : fingerprintToKey(fp) \notin targetKeys)
    IN [verified |-> Len(missing) = 0,
        missing |-> missing,
        found |-> Len(expectedFingerprints) - Len(missing),
        expected |-> Len(expectedFingerprints)]

\* ---------------------------------------------------------------- the state
VARIABLES
    manifest,      \* content of MANIFEST_FILE
    source,        \* uids of the messages in the source mailbox
    target,        \* messages of the target mailbox, oldest first, by source uid
    visible,       \* how many of them a newly opened session is shown
    targetExists,  \* the target mailbox has been created
    now,           \* last reading of the clock, 0 before the first
    faults,        \* adverse events so far: failed calls, server lag, crashes
    ex,            \* per invocation of bulk_move: its position and locals
    log,           \* content of LOG_FILE
    retry,         \* one run of withRetry: its loop counter and the calls made
    otherExists,   \* a second mailbox, not the target of the moves, has been created
    fpCall         \* one call of buildFingerprint: the message and the outcome

vars == <<manifest, source, target, visible, targetExists, now, faults, ex, log, retry, otherExists, fpCall>>

\* { steps: [], startedAt: null }; a time that is null is 0.
EmptyLog == [steps |-> <<>>, startedAt |-> 0]

\* No withRetry run is under way.
NoRetry == [pc |-> "idle", maxAttempts |-> 0, attempt |-> 0, calls |-> <<>>, result |-> NullStr]

\* No buildFingerprint call is looked at.
NoFingerprint == [msg |-> Null, out |-> [status |-> "none"]]

NoVerification == [verified |-> FALSE, missing |-> <<>>, found |-> 0, expected |-> 0]

IdleExecutor ==
    [pc |-> "idle", uids |-> <<>>, operation |-> Null, chunk |-> 0,
     attemptChunkSize |-> CHUNK_SIZE, sub |-> 0, fingerprints |-> <<>>,
     verification |-> NoVerification, totalMoved |-> 0, totalFailed |-> 0,
     attempt |-> 1, data |-> Null, result |-> [status |-> "none"]]

Init ==
    /\ manifest = EmptyManifest
    /\ source = Uids
    /\ target = <<>>
    /\ visible = 0
    /\ targetExists = FALSE
    /\ now = 0
    /\ faults = 0
    /\ ex = [p \in Procs |-> IdleExecutor]
    /\ log = EmptyLog
    /\ retry = NoRetry
    /\ otherExists = FALSE
    /\ fpCall = NoFingerprint

Running == {"fetch", "copy", "verify", "delete"}

\* A split that cuts every attempt at the retry size.
SubChunksAtRetrySize(chunkUids, size) ==
    [j \in 1..((Len(chunkUids) + CHUNK_SIZE_RETRY - 1) \div CHUNK_SIZE_RETRY) |->
        Slice(chunkUids, (j - 1) * CHUNK_SIZE_RETRY, j * CHUNK_SIZE_RETRY)]

\* const subChunks = []; for (i = 0; i < chunkUids.length; i += attemptChunkSize) ...
SubChunks(chunkUids, size) ==
    [j \in 1..((Len(chunkUids) + size - 1) \div size) |->
        Slice(chunkUids, (j - 1) * size, j * size)]

CurChunk(p) == ex[p].operation.chunks[ex[p].chunk + 1]
CurSubChunks(p) == SubChunks(CurChunk(p).uids, ex[p].attemptChunkSize)
CurSubChunk(p) == CurSubChunks(p)[ex[p].sub + 1]

\* The invocation ends: its answer remains, and for the record the uids it
\* was given and the operation it started; its other locals are gone.
Return(p, pc, result) ==
    ex' = [ex EXCEPT ![p] = [IdleExecutor EXCEPT !.pc = pc, !.result = result,
                                                 !.uids = ex[p].uids,
                                                 !.operation = ex[p].operation]]

Throw(p, err) ==
    Return(p, "threw", [status |-> "error", error |-> err, moved |-> ex[p].totalMoved])

\* A mail-store call of p failed with err inside withRetry.
CallFails(p, err) ==
    /\ faults < MaxFaults
    /\ faults' = faults + 1
    /\ IF withRetryRethrows(err, ex[p].attempt, DefaultMaxAttempts)
       THEN Throw(p, err)
       ELSE ex' = [ex EXCEPT ![p].attempt = @ + 1]

\* ------------------------------------------------------------- bulk_move
\* safeMoveEmails from startOperation to the first fetchEnvelopes call.
BeginMove(p, data, uids, t) ==
    IF startOperationConflict(data)
    THEN /\ Throw(p, "Incomplete move operation detected")
         /\ UNCHANGED manifest
    ELSE LET written == startOperation(data, "A", "B", uids, t)
         IN /\ manifest' = written
            /\ ex' = [ex EXCEPT ![p].pc = "fetch",
                                ![p].uids = uids,
                                ![p].operation = written.current,
                                ![p].chunk = 0,
                                ![p].attemptChunkSize = CHUNK_SIZE,
                                ![p].sub = 0,
                                ![p].attempt = 1,
                                ![p].totalMoved = 0,
                                ![p].totalFailed = 0,
                                ![p].data = Null]

\* Date.now(): readings are counted from the first one and never go back.
ClockReadings == IF now = 0 THEN {1} ELSE now..MaxNow

\* The searches a caller asks for: every message, or those of one sender.
Filters == {NullText, Alice}

\* client.search(query, {uid: true}): the matching uids in ascending order.
search(mailbox, sender) ==
    SortedSeq({u \in mailbox : sender = NullText \/ MessageOf(u).envelope.from = sender})

\* A bulkMove that creates the target mailbox before it looks at dryRun.
BulkMoveCallEnsuresFirst(p, dryRun) ==
    /\ ex[p].pc = "idle"
    /\ \A q \in Procs : q < p => ex[q].pc # "idle"
    /\ \E sender \in Filters :
          LET uids == search(source, sender)
          IN IF Len(uids) = 0
             THEN /\ Return(p, "done", [status |-> "nothing", moved |-> 0])
                  /\ UNCHANGED <<manifest, targetExists, now>>
             ELSE /\ targetExists' = TRUE
                  /\ IF dryRun
                     THEN /\ Return(p, "done", [status |-> "nothing", dryRun |-> TRUE,
                                                wouldMove |-> Len(uids), filters |-> sender])
                          /\ UNCHANGED <<manifest, now>>
                     ELSE \E t \in ClockReadings :
                             /\ now' = t
                             /\ BeginMove(p, manifest, uids, t)
    /\ UNCHANGED <<source, target, visible, faults, log, retry, otherExists, fpCall>>

\* bulkMove: the search resolves the uids once; with dryRun their number is
\* the answer, otherwise ensureMailbox creates the target, safeMoveEmails
\* runs startOperation and calls the first fetchEnvelopes.
BulkMoveCall(p, dryRun) ==
    /\ ex[p].pc = "idle"
    /\ \A q \in Procs : q < p => ex[q].pc # "idle"
    /\ \E sender \in Filters :
          LET uids == search(source, sender)
          IN IF dryRun
             THEN /\ Return(p, "done", [status |-> "nothing", dryRun |-> TRUE,
                                        wouldMove |-> Len(uids), filters |-> sender])
                  /\ UNCHANGED <<manifest, targetExists, now>>
             ELSE IF Len(uids) = 0
             THEN /\ Return(p, "done", [status |-> "nothing", moved |-> 0])
                  /\ UNCHANGED <<manifest, targetExists, now>>
             ELSE /\ targetExists' = TRUE
                  /\ \E t \in ClockReadings :
                        /\ now' = t
                        /\ BeginMove(p, manifest, uids, t)
    /\ UNCHANGED <<source, target, visible, faults, log, retry, otherExists, fpCall>>

\* bulk_move as the tool is called by default, without dryRun.
BulkMove(p) == BulkMoveCall(p, FALSE)

\* bulkDelete: with dryRun the number of matching uids is the answer;
\* otherwise they are deleted chunk by chunk (here without a step of another
\* invocation between the chunks).
BulkDeleteCall(p, dryRun) ==
    /\ ex[p].pc = "idle"
    /\ \A q \in Procs : q < p => ex[q].pc # "idle"
    /\ \E sender \in Filters :
          LET uids == search(source, sender)
          IN IF dryRun
             THEN /\ Return(p, "done", [status |-> "nothing", dryRun |-> TRUE,
                                        wouldDelete |-> Len(uids), filters |-> sender])
                  /\ source' = source
             ELSE /\ Return(p, "done", [status |-> "nothing", deleted |-> Len(uids)])
                  /\ source' = deleteChunk(source, uids)
    /\ UNCHANGED <<manifest, target, visible, targetExists, now, faults, log, retry, otherExists, fpCall>>

\* ------------------------------------------------------- safeMoveEmails
\* Step 1: fetchEnvelopes returns; the fingerprints are written to the
\* manifest and copyChunk is called.
FetchReturn(p) ==
    /\ ex[p].pc = "fetch"
    /\ \/ /\ \E err \in Errors : CallFails(p, err)
          /\ UNCHANGED manifest
       \/ /\ faults' = faults
          /\ LET envelopes == fetchEnvelopes(source, CurSubChunk(p))
                 fingerprints == [i \in DOMAIN envelopes |-> buildFingerprint(envelopes[i])]
             IN IF updateThrows(manifest, CurChunk(p).index)
                THEN Throw(p, "TypeError") /\ UNCHANGED manifest
                ELSE /\ manifest' = persistFingerprints(manifest, CurChunk(p).index,
                                                        fingerprints, now)
                     /\ ex' = [ex EXCEPT ![p].pc = "copy",
                                         ![p].fingerprints = fingerprints,
                                         ![p].attempt = 1]
    /\ UNCHANGED <<source, target, visible, targetExists, now, log, retry, otherExists, fpCall>>

\* Messages arrive in the target.  New sessions are shown them at once unless
\* the server lags; while it lags they are shown nothing new.
Lands(newTarget) ==
    /\ target' = newTarget
    /\ visible' = IF visible = Len(target) THEN Len(newTarget) ELSE visible

\* The server starts to lag with this arrival.
LandsUnseen(newTarget) ==
    /\ faults < MaxFaults
    /\ faults' = faults + 1
    /\ Len(newTarget) > Len(target)
    /\ visible = Len(target)
    /\ target' = newTarget
    /\ visible' = visible

\* The server catches up.
Sync ==
    /\ visible < Len(target)
    /\ visible' = Len(target)
    /\ UNCHANGED <<manifest, source, target, targetExists, now, faults, ex, log, retry, otherExists, fpCall>>

\* Step 2: copyChunk returns; the chunk is marked copied_not_verified and
\* verifyFingerprintsInTarget is called.  The call fails before the copy
\* (connect, mailboxOpen, messageCopy) or after it (logout).
CopyReturn(p) ==
    /\ ex[p].pc = "copy"
    /\ \/ /\ \E err \in Errors : CallFails(p, err)
          /\ \/ target' = target /\ visible' = visible
             \/ Lands(copyChunk(source, target, CurSubChunk(p)))
          /\ UNCHANGED manifest
       \/ /\ \/ faults' = faults /\ Lands(copyChunk(source, target, CurSubChunk(p)))
             \/ LandsUnseen(copyChunk(source, target, CurSubChunk(p)))
          /\ IF updateThrows(manifest, CurChunk(p).index)
             THEN Throw(p, "TypeError") /\ UNCHANGED manifest
             ELSE /\ manifest' = updateChunk(manifest, CurChunk(p).index,
                                    [status |-> "copied_not_verified", copiedAt |-> now], now)
                  /\ ex' = [ex EXCEPT ![p].pc = "verify", ![p].attempt = 1]
    /\ UNCHANGED <<source, targetExists, now, log, retry, otherExists, fpCall>>

\* A count that adds the whole chunk for each of its sub-batches.
MovedAfterDeleteOfChunk(p) == ex[p].totalMoved + Len(CurChunk(p).uids)

\* totalMoved += subChunk.length
MovedAfterDelete(p) == ex[p].totalMoved + Len(CurSubChunk(p))

\* The rest of the loop body after a delete: next sub-batch, or the chunk is
\* complete and the next chunk starts, or the operation is complete.
AfterDelete(p) ==
    LET moved == MovedAfterDelete(p)
    IN IF ex[p].sub + 1 < Len(CurSubChunks(p))
       THEN /\ ex' = [ex EXCEPT ![p].pc = "fetch", ![p].sub = @ + 1,
                                ![p].attempt = 1, ![p].totalMoved = moved]
            /\ UNCHANGED manifest
       ELSE IF updateThrows(manifest, CurChunk(p).index)
       THEN /\ Return(p, "threw", [status |-> "error", error |-> "TypeError",
                                   moved |-> moved])
            /\ UNCHANGED manifest
       ELSE LET done == updateChunk(manifest, CurChunk(p).index,
                                    [status |-> "complete", deletedAt |-> now], now)
            IN IF ex[p].chunk + 1 < Len(ex[p].operation.chunks)
               THEN /\ manifest' = done
                    /\ ex' = [ex EXCEPT ![p].pc = "fetch", ![p].chunk = @ + 1,
                                        ![p].attemptChunkSize = CHUNK_SIZE,
                                        ![p].sub = 0, ![p].attempt = 1,
                                        ![p].totalMoved = moved]
               ELSE /\ manifest' = completeOperation(done, now)
                    /\ Return(p, "done", [status |-> "complete", moved |-> moved,
                                          total |-> ex[p].operation.totalUids])

\* A count of what remains that leaves out the chunk that failed.
RemainWithoutFailedChunk(p) ==
    ex[p].operation.totalUids - ex[p].totalMoved - Len(CurChunk(p).uids)

\* `${operation.totalUids - totalMoved} remain in source untouched`
RemainAfterFailure(p) == ex[p].operation.totalUids - ex[p].totalMoved

\* Verification failed: retry the chunk at the smaller size, or fail it.
\* A failed verification that starts the chunk again at the smaller size
\* every time.
VerificationFailedTriesAgain(p) ==
    /\ ex' = [ex EXCEPT ![p].pc = "fetch",
                        ![p].attemptChunkSize = CHUNK_SIZE_RETRY,
                        ![p].sub = 0, ![p].attempt = 1]
    /\ UNCHANGED manifest

VerificationFailed(p) ==
    IF ex[p].attemptChunkSize # CHUNK_SIZE_RETRY
    THEN /\ ex' = [ex EXCEPT ![p].pc = "fetch",
                             ![p].attemptChunkSize = CHUNK_SIZE_RETRY,
                             ![p].sub = 0, ![p].attempt = 1]
         /\ UNCHANGED manifest
    ELSE IF updateThrows(manifest, CurChunk(p).index)
    THEN Throw(p, "TypeError") /\ UNCHANGED manifest
    ELSE LET failed == ex[p].totalFailed + Len(CurChunk(p).uids)
         IN /\ manifest' = failOperation(
                   updateChunk(manifest, CurChunk(p).index,
                       [status |-> "failed",
                        failureReason |-> "Verification failed at both chunk sizes"], now),
                   "Verification failed after retry", now)
            /\ Return(p, "done", [status |-> "partial",
                                  moved |-> ex[p].totalMoved,
                                  failed |-> failed,
                                  remain |-> RemainAfterFailure(p)])

\* Step 3: verifyFingerprintsInTarget returns; mb.exists is what the server
\* shows a new session.
VerifyReturn(p) ==
    /\ ex[p].pc = "verify"
    /\ \/ /\ \E err \in Errors : CallFails(p, err)
          /\ UNCHANGED manifest
       \/ /\ faults' = faults
          /\ LET verification == verifyFingerprintsInTarget(target, visible,
                                                           ex[p].fingerprints)
             IN IF ~verification.verified
                THEN VerificationFailed(p)
                ELSE IF updateThrows(manifest, CurChunk(p).index)
                THEN Throw(p, "TypeError") /\ UNCHANGED manifest
                ELSE /\ manifest' = updateChunk(manifest, CurChunk(p).index,
                                      [status |-> "verified_not_deleted",
                                       verifiedAt |-> now], now)
                     /\ ex' = [ex EXCEPT ![p].pc = "delete",
                                         ![p].verification = verification,
                                         ![p].attempt = 1]
    /\ UNCHANGED <<source, target, visible, targetExists, now, log, retry, otherExists, fpCall>>

\* Step 4: deleteChunk returns.  The call fails before the delete or after it.
DeleteReturn(p) ==
    /\ ex[p].pc = "delete"
    /\ \/ /\ \E err \in Errors : CallFails(p, err)
          /\ \/ source' = source
             \/ source' = deleteChunk(source, CurSubChunk(p))
          /\ UNCHANGED manifest
       \/ /\ faults' = faults
          /\ source' = deleteChunk(source, CurSubChunk(p))
          /\ AfterDelete(p)
    /\ UNCHANGED <<target, visible, targetExists, now, log, retry, otherExists, fpCall>>

\* The process running invocation p stops.
Crash(p) ==
    /\ ex[p].pc \in Running
    /\ faults < MaxFaults
    /\ faults' = faults + 1
    /\ Return(p, "crashed", [status |-> "none"])
    /\ UNCHANGED <<manifest, source, target, visible, targetExists, now, log, retry, otherExists, fpCall>>

\* The abandon_move tool.
AbandonMove ==
    /\ manifest' = abandonMove(manifest, now)
    /\ UNCHANGED <<source, target, visible, targetExists, now, faults, ex, log, retry, otherExists, fpCall>>

\* Two processes sharing the manifest file: startOperation's readManifest
\* and writeManifest are separate accesses to the file.
StartRead(p) ==
    /\ ex[p].pc = "idle"
    /\ \A q \in Procs : q < p => ex[q].pc # "idle"
    /\ \E sender \in Filters :
          /\ search(source, sender) # <<>>
          /\ ex' = [ex EXCEPT ![p].pc = "starting",
                              ![p].uids = search(source, sender),
                              ![p].data = manifest]
    /\ targetExists' = TRUE
    /\ UNCHANGED <<manifest, source, target, visible, now, faults, log, retry, otherExists, fpCall>>

StartWrite(p) ==
    /\ ex[p].pc = "starting"
    /\ \E t \in ClockReadings :
          /\ now' = t
          /\ BeginMove(p, ex[p].data, ex[p].uids, t)
    /\ UNCHANGED <<source, target, visible, targetExists, faults, log, retry, otherExists, fpCall>>

Next ==
    \/ \E p \in Procs : BulkMove(p)
    \/ \E p \in Procs : FetchReturn(p)
    \/ \E p \in Procs : CopyReturn(p)
    \/ \E p \in Procs : VerifyReturn(p)
    \/ \E p \in Procs : DeleteReturn(p)
    \/ \E p \in Procs : Crash(p)
    \/ AbandonMove
    \/ Sync

Spec == Init /\ [][Next]_vars

NextRace ==
    \/ \E p \in Procs : StartRead(p)
    \/ \E p \in Procs : StartWrite(p)
    \/ \E p \in Procs : FetchReturn(p)
    \/ \E p \in Procs : CopyReturn(p)
    \/ \E p \in Procs : VerifyReturn(p)
    \/ \E p \in Procs : DeleteReturn(p)
    \/ Sync

SpecRace == Init /\ [][NextRace]_vars

\* A longer mailbox, for moves over three chunks: two full ones and a rest.
InitLong ==
    /\ manifest = EmptyManifest
    /\ source = 1..LongUids
    /\ target = <<>>
    /\ visible = 0
    /\ targetExists = FALSE
    /\ now = 0
    /\ faults = 0
    /\ ex = [p \in Procs |-> IdleExecutor]
    /\ log = EmptyLog
    /\ retry = NoRetry
    /\ otherExists = FALSE
    /\ fpCall = NoFingerprint

\* One invocation of bulk_move on it, with abandon_move at any moment.
NextLong ==
    \/ BulkMove(1)
    \/ FetchReturn(1)
    \/ CopyReturn(1)
    \/ VerifyReturn(1)
    \/ DeleteReturn(1)
    \/ Crash(1)
    \/ AbandonMove
    \/ Sync

SpecLong == InitLong /\ [][NextLong]_vars

\* The manifest store under a long series of tool calls: operations are
\* started one after the other (each at a later clock reading) and ended by
\* the executor (completeOperation, failOperation) or by abandon_move.
StoreStart ==
    /\ now < MaxOps
    /\ ~startOperationConflict(manifest)
    /\ \E sender \in Filters :
          manifest' = startOperation(manifest, "A", "B", search(source, sender), now + 1)
    /\ now' = now + 1
    /\ UNCHANGED <<source, target, visible, targetExists, faults, ex, log, retry, otherExists, fpCall>>

StoreComplete ==
    /\ manifest.current # Null
    /\ manifest' = completeOperation(manifest, now)
    /\ UNCHANGED <<source, target, visible, targetExists, now, faults, ex, log, retry, otherExists, fpCall>>

StoreFail ==
    /\ manifest.current # Null
    /\ manifest' = failOperation(manifest, "Verification failed after retry", now)
    /\ UNCHANGED <<source, target, visible, targetExists, now, faults, ex, log, retry, otherExists, fpCall>>

NextStore ==
    \/ StoreStart
    \/ StoreComplete
    \/ StoreFail
    \/ AbandonMove

SpecStore == Init /\ [][NextStore]_vars

\* startOperation on the manifest store alone, for the uids of the whole
\* mailbox.
ShapeStart ==
    /\ now < MaxOps
    /\ ~startOperationConflict(manifest)
    /\ manifest' = startOperation(manifest, "A", "B", search(source, NullText), now + 1)
    /\ now' = now + 1
    /\ UNCHANGED <<source, target, visible, targetExists, faults, ex, log, retry, otherExists, fpCall>>

\* One of the executor's updateChunk calls on the manifest store alone: a
\* chunk of an operation whose chunks are all pending is marked complete.
StoreUpdateChunk ==
    /\ manifest.current # Null
    /\ \A k \in DOMAIN manifest.current.chunks : manifest.current.chunks[k].status = "pending"
    /\ \E k \in DOMAIN manifest.current.chunks :
          manifest' = updateChunk(manifest, k - 1,
                                  [status |-> "complete", deletedAt |-> now], now)
    /\ UNCHANGED <<source, target, visible, targetExists, now, faults, ex, log, retry, otherExists, fpCall>>

NextShape ==
    \/ ShapeStart
    \/ StoreUpdateChunk
    \/ StoreComplete
    \/ StoreFail
    \/ AbandonMove

SpecShape == Init /\ [][NextShape]_vars

\* The manifest file is deleted or garbled: from now on readManifest yields
\* the empty manifest, until the next writeManifest.
ManifestLost ==
    /\ manifest # EmptyManifest
    /\ faults < MaxFaults
    /\ faults' = faults + 1
    /\ manifest' = EmptyManifest
    /\ UNCHANGED <<source, target, visible, targetExists, now, ex, log, retry, otherExists, fpCall>>

\* One invocation of bulk_move whose manifest file may be lost under it.
NextHeal ==
    \/ BulkMove(1)
    \/ FetchReturn(1)
    \/ CopyReturn(1)
    \/ VerifyReturn(1)
    \/ DeleteReturn(1)
    \/ AbandonMove
    \/ Sync
    \/ ManifestLost

SpecHeal == Init /\ [][NextHeal]_vars

\* The bulk tools called with and without dryRun.
NextDry ==
    \/ \E p \in Procs, dryRun \in BOOLEAN : BulkMoveCall(p, dryRun)
    \/ \E p \in Procs, dryRun \in BOOLEAN : BulkDeleteCall(p, dryRun)
    \/ \E p \in Procs : FetchReturn(p)
    \/ \E p \in Procs : CopyReturn(p)
    \/ \E p \in Procs : VerifyReturn(p)
    \/ \E p \in Procs : DeleteReturn(p)
    \/ AbandonMove
    \/ Sync

SpecDry == Init /\ [][NextDry]_vars

\* ------------------------------------------------------------ session log
\* The texts a caller logs.
Steps == {"plan", "act", "done"}

\* logRead: the parsed file; a missing or unparseable file reads as EmptyLog.
logRead(file) == file

\* A write that stamps startedAt every time.
logWriteRestamps(file, step, t) ==
    [steps |-> Append(logRead(file).steps, [time |-> t, step |-> step]),
     startedAt |-> t]

\* logWrite: the log it writes to the file and returns; both timestamps are
\* taken in the same synchronous call.
logWrite(file, step, t) ==
    [steps |-> Append(logRead(file).steps, [time |-> t, step |-> step]),
     startedAt |-> IF logRead(file).startedAt = 0 THEN t ELSE logRead(file).startedAt]

\* The log_write tool, each call at a later clock reading.
LogWrite ==
    /\ now < MaxLogNow
    /\ now' = now + 1
    /\ \E step \in Steps : log' = logWrite(log, step, now + 1)
    /\ UNCHANGED <<manifest, source, target, visible, targetExists, faults, ex, retry, otherExists, fpCall>>

\* The log_clear tool.
LogClear ==
    /\ log' = EmptyLog
    /\ UNCHANGED <<manifest, source, target, visible, targetExists, now, faults, ex, retry, otherExists, fpCall>>

NextLog ==
    \/ LogWrite
    \/ LogClear

SpecLog == Init /\ [][NextLog]_vars

\* --------------------------------------------------- crash during a write
\* What readManifest returns after the process stopped inside
\* writeManifest(new) over a file holding old: writeFileSync truncates the
\* file and then writes, so the file holds old (not yet opened), new (all
\* written) or a prefix of the new text, which JSON.parse rejects and
\* readManifest answers with the default manifest.
readAfterCrashedWrite(old, new) == {old, new, EmptyManifest}

\* The process stops inside the manifest write that follows the copy.
CrashInWrite(p) ==
    /\ ex[p].pc = "copy"
    /\ ~updateThrows(manifest, CurChunk(p).index)
    /\ faults < MaxFaults
    /\ faults' = faults + 1
    /\ Lands(copyChunk(source, target, CurSubChunk(p)))
    /\ manifest' \in readAfterCrashedWrite(manifest,
                        updateChunk(manifest, CurChunk(p).index,
                            [status |-> "copied_not_verified", copiedAt |-> now], now))
    /\ Return(p, "crashed", [status |-> "none"])
    /\ UNCHANGED <<source, targetExists, now, log, retry, otherExists, fpCall>>

\* One invocation of bulk_move whose process may stop inside a manifest write.
NextTorn ==
    \/ BulkMove(1)
    \/ FetchReturn(1)
    \/ CopyReturn(1)
    \/ VerifyReturn(1)
    \/ DeleteReturn(1)
    \/ AbandonMove
    \/ Sync
    \/ CrashInWrite(1)

SpecTorn == Init /\ [][NextTorn]_vars

\* ------------------------------------------------------- a refused request
\* bulkMove for a target mailbox that does not exist yet, requested while an
\* operation is in progress: search, ensureMailbox, then safeMoveEmails, whose
\* startOperation throws.
BulkMoveToOther(p) ==
    /\ ex[p].pc = "idle"
    /\ startOperationConflict(manifest)
    /\ \E sender \in Filters :
          LET uids == search(source, sender)
          IN IF Len(uids) = 0
             THEN /\ Return(p, "done", [status |-> "nothing", moved |-> 0])
                  /\ UNCHANGED otherExists
             ELSE /\ otherExists' = TRUE
                  /\ Throw(p, "Incomplete move operation detected")
    /\ UNCHANGED <<manifest, source, target, visible, targetExists, now, faults, log, retry, fpCall>>

\* A move by invocation 1 and a request for another target by invocation 2.
NextRefuse ==
    \/ BulkMove(1)
    \/ FetchReturn(1)
    \/ CopyReturn(1)
    \/ VerifyReturn(1)
    \/ DeleteReturn(1)
    \/ Crash(1)
    \/ Sync
    \/ BulkMoveToOther(2)

SpecRefuse == Init /\ [][NextRefuse]_vars

\* ------------------------------------------------- buildFingerprint alone
\* The envelopes a message can come with: with or without Message-ID, sender
\* and subject, with a date, without one, or with one that does not parse.
Envelopes ==
    [messageId : {NullText, <<"mid", "1">>},
     from : {NullText, Alice, Bob},
     date : {NullText, <<"2024-01-01">>, <<"2024-01-02">>, InvalidDate},
     subject : {NullText, EmptyText, <<"subject", "2">>}]

\* What the target mailbox may hold when a fingerprint is looked for: uids of
\* the messages of MessageOf, in the order they landed.
TargetWindows == {<<>>, <<1>>, <<2>>, <<3, 1>>, <<2, 3>>}

InitFingerprint ==
    /\ manifest = EmptyManifest
    /\ source = Uids
    /\ target = <<>>
    /\ visible = 0
    /\ targetExists = FALSE
    /\ now = 0
    /\ faults = 0
    /\ ex = [p \in Procs |-> IdleExecutor]
    /\ log = EmptyLog
    /\ retry = NoRetry
    /\ otherExists = FALSE
    /\ \E e \in Envelopes : fpCall = [msg |-> [uid |-> 1, envelope |-> e],
                                  out |-> [status |-> "none"]]

\* buildFingerprint(msg) is called and returns or throws.
BuildFingerprint ==
    /\ fpCall.out.status = "none"
    /\ fpCall' = [fpCall EXCEPT !.out = IF buildFingerprintThrows(fpCall.msg)
                                 THEN [status |-> "threw", error |-> "RangeError"]
                                 ELSE [status |-> "returned",
                                       fingerprint |-> buildFingerprint(fpCall.msg)]]
    /\ UNCHANGED <<manifest, source, target, visible, targetExists, now, faults, ex, log,
                   retry, otherExists>>

\* verifyFingerprintsInTarget(targetMailbox, [fingerprint]) for the
\* fingerprint just built.
VerifyFingerprint ==
    /\ fpCall.out.status = "returned"
    /\ \E w \in TargetWindows :
          fpCall' = [fpCall EXCEPT !.out =
                        [status |-> "checked",
                         fingerprint |-> fpCall.out.fingerprint,
                         window |-> w,
                         verification |-> verifyFingerprintsInTarget(
                                              w, Len(w), <<fpCall.out.fingerprint>>)]]
    /\ UNCHANGED <<manifest, source, target, visible, targetExists, now, faults, ex, log,
                   retry, otherExists>>

NextFingerprint ==
    \/ BuildFingerprint
    \/ VerifyFingerprint

SpecFingerprint == InitFingerprint /\ [][NextFingerprint]_vars

\* ------------------------------------------------------------ termination
\* One invocation of bulk_move with room for TermFaults adverse events, so
\* that one mail-store call can fail DefaultMaxAttempts times.
InitTerm ==
    /\ manifest = EmptyManifest
    /\ source = 1..LongUids
    /\ target = <<>>
    /\ visible = 0
    /\ targetExists = FALSE
    /\ now = 0
    /\ faults = MaxFaults - TermFaults
    /\ ex = [p \in Procs |-> IdleExecutor]
    /\ log = EmptyLog
    /\ retry = NoRetry
    /\ otherExists = FALSE
    /\ fpCall = NoFingerprint

SpecTerm == InitTerm /\ [][NextLong]_vars

\* --------------------------------------------------------------- withRetry
\* What one call of fn() can end in: a value, or an error.
RetryValues == {"envelopes", "verification"}
RetryErrors == {"ECONNRESET", "ETIMEDOUT", "NO ", "Mailbox does not exist", "Invalid credentials"}

\* withRetry(label, fn, maxAttempts = 3) is called: attempt = 1.
WithRetryBegin ==
    /\ retry.pc = "idle"
    /\ \E maxAttempts \in 1..DefaultMaxAttempts :
          retry' = [NoRetry EXCEPT !.pc = "calling", !.maxAttempts = maxAttempts,
                                   !.attempt = 1]
    /\ UNCHANGED <<manifest, source, target, visible, targetExists, now, faults, ex, log, otherExists, fpCall>>

\* One round of the loop: await fn() returns a value, which withRetry returns,
\* or throws, and the catch block rethrows or goes round again.
WithRetryCall ==
    /\ retry.pc = "calling"
    /\ \/ \E v \in RetryValues :
             retry' = [retry EXCEPT !.pc = "returned", !.result = v,
                                    !.calls = Append(@, v)]
       \/ \E err \in RetryErrors :
             IF withRetryRethrows(err, retry.attempt, retry.maxAttempts)
             THEN retry' = [retry EXCEPT !.pc = "threw", !.result = err,
                                         !.calls = Append(@, err)]
             ELSE retry' = [retry EXCEPT !.attempt = @ + 1, !.calls = Append(@, err)]
    /\ UNCHANGED <<manifest, source, target, visible, targetExists, now, faults, ex, log, otherExists, fpCall>>

\* The caller is done with the outcome.
WithRetryEnd ==
    /\ retry.pc \in {"returned", "threw"}
    /\ retry' = NoRetry
    /\ UNCHANGED <<manifest, source, target, visible, targetExists, now, faults, ex, log, otherExists, fpCall>>

NextRetry ==
    \/ WithRetryBegin
    \/ WithRetryCall
    \/ WithRetryEnd

SpecRetry == Init /\ [][NextRetry]_vars

\* ------------------------------------------------------------------ claims
Count(seq, x) == Cardinality({i \in DOMAIN seq : seq[i] = x})

KeyOfUid(u) == fingerprintToKey(buildFingerprint(MessageOf(u)))

\* The identity keys a session opened on the target can see.
VisibleKeys == {KeyOfUid(target[i]) : i \in 1..visible}

\* C1: whenever a delete call is in flight for a sub-batch (first call or a
\* retry, first attempt or degradation retry, any chunk), the verification of
\* that same sub-batch has returned verified: nothing was missing and the
\* identity key of every fingerprint of the sub-batch has been seen in the
\* target.
C1_DeleteOnlyAfterVerified ==
    \A p \in Procs :
        ex[p].pc = "delete" =>
            /\ ex[p].verification.verified
            /\ ex[p].verification.missing = <<>>
            /\ ex[p].verification.expected = Len(ex[p].fingerprints)
            /\ \A i \in DOMAIN ex[p].fingerprints :
                  /\ ex[p].fingerprints[i].uid \in Range(CurSubChunk(p))
                  /\ fingerprintToKey(ex[p].fingerprints[i]) \in VisibleKeys

\* A delete is in flight for the second sub-batch of a degradation retry.
C1_Witness ==
    \E p \in Procs :
        /\ ex[p].pc = "delete"
        /\ ex[p].attemptChunkSize = CHUNK_SIZE_RETRY
        /\ ex[p].sub = 1
        /\ ex[p].fingerprints # <<>>

\* C2: every message of the source mailbox is, in every reachable state (also
\* after a crash and after any failed mail-store call), in the source or in
\* the target.
C2_AtLeastOneCopy ==
    \A u \in Uids : u \in source \/ u \in Range(target)

\* An invocation crashed or threw after part of its items had been deleted
\* from the source.
C2_Witness ==
    \E p \in Procs :
        /\ ex[p].pc \in {"crashed", "threw"}
        /\ ex[p].operation # Null
        /\ source # Uids
        /\ source # {}

ConflictError == "Incomplete move operation detected"

AllTargetKeys == {KeyOfUid(target[i]) : i \in DOMAIN target}

\* The manifest holds an operation in progress.
CurrentInProgress ==
    manifest.current # Null /\ manifest.current.status = "in_progress"

\* The operation invocation p started is still the current one, in progress.
StillInProgress(p) ==
    CurrentInProgress /\ manifest.current.operationId = ex[p].operation.operationId

\* C3: for every operation archived as complete, every fingerprint recorded in
\* its chunks has its identity key in the target and its message is no longer
\* in the source.
C3_NoLossWhenComplete ==
    \A i \in DOMAIN manifest.history :
        manifest.history[i].status = "complete" =>
            \A c \in DOMAIN manifest.history[i].chunks :
                \A f \in DOMAIN manifest.history[i].chunks[c].fingerprints :
                    LET fp == manifest.history[i].chunks[c].fingerprints[f]
                    IN /\ fingerprintToKey(fp) \in AllTargetKeys
                       /\ fp.uid \notin source

\* C4: a move requested while the current operation is in_progress throws the
\* conflict error and leaves the manifest as it was.
C4_SingleFlight ==
    [][\A p \in Procs :
          (/\ CurrentInProgress
           /\ ex[p].pc = "idle"
           /\ ex'[p].pc # "idle"
           /\ ex'[p].result.status # "nothing")
          => /\ ex'[p].pc = "threw"
             /\ ex'[p].result.error = ConflictError
             /\ manifest' = manifest]_vars

\* A request was refused with the conflict error and the operation that was
\* in progress is still there, with items already moved.
C4_Witness ==
    \E p \in Procs :
        /\ ex[p].pc = "threw"
        /\ ex[p].result.error = ConflictError
        /\ CurrentInProgress
        /\ source # Uids

\* C5: when an invocation has crashed after startOperation and its operation
\* has not been abandoned, the current slot still holds that operation with
\* status in_progress (so that any later move is refused).
C5_CrashLeavesInProgress ==
    \A p \in Procs :
        ex[p].pc = "crashed" =>
            \/ StillInProgress(p)
            \/ \E i \in DOMAIN manifest.history :
                  /\ manifest.history[i].operationId = ex[p].operation.operationId
                  /\ manifest.history[i].status = "abandoned"

\* C6: at no time are two move executors active.
C6_OneExecutor ==
    Cardinality({p \in Procs : ex[p].pc \in Running}) <= 1

\* C7: an operation reaches a terminal status: once the invocation that
\* started it has ended (returned or thrown) the operation is not left
\* in_progress.
C7_EndedMoveIsTerminal ==
    \A p \in Procs :
        (ex[p].pc \in {"done", "threw"} /\ ex[p].operation # Null) => ~StillInProgress(p)

\* C8: a call of safeMoveEmails ends with a complete result, with a partial
\* result, or with the conflict error, and in no other way.
C8_ThreeOutcomes ==
    \A p \in Procs :
        (ex[p].pc \in {"done", "threw"} /\ ex[p].result.status # "nothing") =>
            \/ ex[p].result.status \in {"complete", "partial"}
            \/ ex[p].result.status = "error" /\ ex[p].result.error = ConflictError

\* C9: after a move that ends complete the target holds exactly one copy of
\* each of its messages.
C9_NoDuplication ==
    \A p \in Procs :
        ex[p].result.status = "complete" =>
            \A u \in Range(ex[p].uids) : Count(target, u) = 1

\* C10: a complete result has moved equal to total, and total equal to the
\* number of uids passed in.
C10_MovedEqualsTotal ==
    \A p \in Procs :
        ex[p].result.status = "complete" =>
            /\ ex[p].result.moved = ex[p].result.total
            /\ ex[p].result.total = Len(ex[p].uids)

\* A move over two chunks returned complete after a degradation retry: a
\* chunk of its archived operation was fingerprinted twice.
C10_Witness ==
    \E p \in Procs :
        /\ ex[p].result.status = "complete"
        /\ Len(ex[p].operation.chunks) = 2
        /\ \E i \in DOMAIN manifest.history :
              /\ manifest.history[i].operationId = ex[p].operation.operationId
              /\ manifest.history[i].status = "complete"
              /\ \E c \in DOMAIN manifest.history[i].chunks :
                    Len(manifest.history[i].chunks[c].fingerprints)
                        > Len(manifest.history[i].chunks[c].uids)

\* The records, in the current slot or the history of manifest m, of the
\* operation invocation p started: same id, same source and target, same
\* uids chunk by chunk.
OwnRecords(p, m) ==
    LET all == (IF m.current = Null THEN {} ELSE {m.current}) \cup Range(m.history)
    IN {o \in all :
          /\ o.operationId = ex[p].operation.operationId
          /\ o.totalUids = ex[p].operation.totalUids
          /\ \A k \in DOMAIN o.chunks : o.chunks[k].uids = ex[p].operation.chunks[k].uids}

\* The delete of the last sub-batch of p's chunk returns without error in
\* this step, at the given attempt size: the executor finishes the chunk.
FinishesChunk(p, size) ==
    /\ ex[p].pc = "delete"
    /\ ex[p].attemptChunkSize = size
    /\ ex[p].sub + 1 = Len(CurSubChunks(p))
    /\ \/ ex'[p].pc \in {"fetch", "done"}
       \/ ex'[p].pc = "threw" /\ ex'[p].result.error = "TypeError"

\* The moved total of p after the step.
MovedAfterStep(p) ==
    IF ex'[p].pc \in {"done", "threw"} THEN ex'[p].result.moved ELSE ex'[p].totalMoved

\* C11: when the retry of a chunk at the smaller size ends with every
\* sub-batch verified and deleted (the first attempt, at the full size, having
\* failed verification), the record of that chunk in the manifest has status
\* complete and the chunk has added its item count to the moved total.
C11_DegradationRetryCompletes ==
    [][\A p \in Procs :
          (FinishesChunk(p, CHUNK_SIZE_RETRY) /\ Len(CurChunk(p).uids) > CHUNK_SIZE_RETRY)
          => /\ OwnRecords(p, manifest') # {}
             /\ \A o \in OwnRecords(p, manifest') :
                   o.chunks[ex[p].chunk + 1].status = "complete"
             /\ MovedAfterStep(p)
                   = SumSizes(ex[p].operation.chunks, 1..(ex[p].chunk + 1))]_vars

\* The verification of p's sub-batch returns not verified in this step, at
\* the given attempt size.
VerificationFailsAt(p, size) ==
    /\ ex[p].pc = "verify"
    /\ ex[p].attemptChunkSize = size
    /\ ~verifyFingerprintsInTarget(target, visible, ex[p].fingerprints).verified
    /\ \/ ex'[p].pc \in {"fetch", "done"}
       \/ ex'[p].pc = "threw" /\ ex'[p].result.error = "TypeError"

\* C12: when the chunks before chunk k have succeeded and the verification of
\* chunk k fails at the smaller size too, the move returns partial with moved
\* the total size of the chunks before k and failed the size of chunk k; the
\* operation is archived as failed with chunk k failed and every later chunk
\* pending and never fetched.
C12_PermanentFailure ==
    [][\A p \in Procs :
          VerificationFailsAt(p, CHUNK_SIZE_RETRY)
          => LET k == ex[p].chunk + 1
                 op == ex[p].operation
             IN /\ ex'[p].result.status = "partial"
                /\ ex'[p].result.moved = SumSizes(op.chunks, 1..(k - 1))
                /\ ex'[p].result.failed = Len(op.chunks[k].uids)
                /\ manifest'.current = Null
                /\ OwnRecords(p, manifest') # {}
                /\ \A o \in OwnRecords(p, manifest') :
                      /\ o.status = "failed"
                      /\ o.chunks[k].status = "failed"
                      /\ o.chunks[k].failureReason # NullStr
                      /\ \A j \in DOMAIN o.chunks :
                            j > k => /\ o.chunks[j].status = "pending"
                                     /\ o.chunks[j].fingerprints = <<>>]_vars

\* The move of p returns the partial result in this step.
ReturnsPartial(p) ==
    ex[p].pc = "verify" /\ ex'[p].pc = "done" /\ ex'[p].result.status = "partial"

NoDegradation(o) ==
    \A k \in DOMAIN o.chunks : Len(o.chunks[k].fingerprints) = Len(o.chunks[k].uids)

\* C14: a move that returns complete with every verification succeeding at
\* the first attempt, alone on the two mailboxes (the one invocation of
\* SpecLong, on a source of LongUids messages and an empty target), takes
\* exactly total messages out of the source and adds exactly total messages
\* to the target.
C14_ExactTransfer ==
    \A p \in Procs :
        (/\ ex[p].result.status = "complete"
         /\ \A o \in OwnRecords(p, manifest) : NoDegradation(o))
        => /\ Cardinality(source) = LongUids - ex[p].result.total
           /\ Len(target) = ex[p].result.total

\* The first n elements of a sequence.
Take(s, n) == SubSeq(s, 1, Min(n, Len(s)))

Terminal == {"complete", "failed", "abandoned"}

\* C15: the history holds at most 5 operations, the most recently terminated
\* first; a step that terminates the current operation puts it in front of
\* the history and keeps the 4 most recent of the others, after which status
\* reports no current operation and that operation as the first of its
\* history; no other step changes the history.
C15_HistoryBoundAndOrder ==
    [][/\ Len(manifest'.history) <= 5
       /\ \A i, j \in DOMAIN manifest'.history :
             i < j => manifest'.history[i].updatedAt >= manifest'.history[j].updatedAt
       /\ IF manifest.current # Null /\ manifest'.current = Null
          THEN /\ manifest'.history[1].operationId = manifest.current.operationId
               /\ manifest'.history[1].status \in Terminal
               /\ Tail(manifest'.history) = Take(manifest.history, 4)
               /\ "status" \in DOMAIN getMoveStatus(manifest')
               /\ getMoveStatus(manifest').status = "no_operation"
               /\ getMoveStatus(manifest').history[1] = summarizeOp(manifest'.history[1])
          ELSE manifest'.history = manifest.history]_vars

\* Six operations have terminated, in each of the three ways: the history
\* holds the last 5 and the first one is gone.
C15_Witness ==
    /\ manifest.current = Null
    /\ Len(manifest.history) = 5
    /\ [i \in 1..5 |-> manifest.history[i].operationId] = <<6, 5, 4, 3, 2>>
    /\ {manifest.history[i].status : i \in 1..5} = Terminal

\* A tool call that runs no executor step has written the manifest: of the
\* steps of Spec, those are the calls of abandon_move.
ManifestToolStep == ex' = ex /\ manifest' # manifest

\* C16: abandon_move on an operation in progress answers abandoned true with
\* the id of that operation, puts it first in the history with status
\* abandoned and nothing else about it changed but updatedAt, keeps the other
\* history entries (the 4 most recent), empties the current slot so that the
\* next startOperation is accepted, and leaves the mail store as it was.
C16_AbandonFrame ==
    [][(CurrentInProgress /\ ManifestToolStep)
       => /\ abandonMoveResult(manifest)
               = [abandoned |-> TRUE, operationId |-> manifest.current.operationId]
          /\ manifest'.current = Null
          /\ ~CurrentInProgress'
          /\ manifest'.history
               = <<[manifest.current EXCEPT !.status = "abandoned",
                                            !.updatedAt = manifest'.history[1].updatedAt]>>
                 \o Take(manifest.history, 4)
          /\ UNCHANGED <<source, target, visible, targetExists>>]_vars

\* An operation was abandoned after part of its items had been copied and
\* deleted, these are where they were, and a new operation has been accepted.
C16_Witness ==
    /\ CurrentInProgress
    /\ Len(manifest.history) >= 1
    /\ manifest.history[1].status = "abandoned"
    /\ manifest.history[1].operationId # manifest.current.operationId
    /\ source # Uids
    /\ \A u \in Uids \ source : u \in Range(target)

\* C17: with no operation in progress (the current slot is empty)
\* abandon_move answers abandoned false with a message and no error, and
\* writes nothing: the manifest is as it was, so a further call answers the
\* same.
C17_AbandonNothing ==
    ~CurrentInProgress =>
        \A t \in ClockReadings :
            /\ DOMAIN abandonMoveResult(manifest) = {"abandoned", "message"}
            /\ abandonMoveResult(manifest).abandoned = FALSE
            /\ abandonMove(manifest, t) = manifest
            /\ abandonMoveResult(abandonMove(manifest, t)) = abandonMoveResult(manifest)

\* The current slot is empty after an operation was abandoned and after
\* another one ended: abandon_move has nothing to abandon.
C17_Witness ==
    /\ manifest.current = Null
    /\ Len(manifest.history) = 2
    /\ manifest.history[2].status = "abandoned"

\* C19: while the manifest file is missing or unparseable (readManifest
\* yields the empty manifest) no manifest-store operation surfaces an error:
\* status reports no operation, abandon_move answers abandoned false,
\* startOperation is accepted, and no step of a move that is running at that
\* moment (chunk update, complete, fail) throws.
C19_SelfHealing ==
    [][manifest = EmptyManifest
       => /\ getMoveStatus(manifest) = [status |-> "no_operation", history |-> <<>>]
          /\ DOMAIN abandonMoveResult(manifest) = {"abandoned", "message"}
          /\ ~startOperationConflict(manifest)
          /\ \A p \in Procs :
                (ex[p].pc \in Running /\ ex'[p].pc = "threw")
                => ex'[p].result.error \in Errors]_vars

\* The number of messages of the source that a filter matches.
Matching(sender) ==
    Cardinality({u \in source : sender = NullText \/ MessageOf(u).envelope.from = sender})

\* Invocation p answers a dry run in this step.
AnswersDryRun(p) == ex[p].pc = "idle" /\ "dryRun" \in DOMAIN ex'[p].result

\* C20: bulk_move and bulk_delete called with dryRun answer with the number
\* of matching emails (wouldMove, wouldDelete) and change nothing: no message
\* is copied or deleted, no mailbox is created, the manifest is as it was.
C20_DryRunChangesNothing ==
    [][\A p \in Procs :
          AnswersDryRun(p)
          => /\ ex'[p].result.dryRun = TRUE
             /\ \/ /\ "wouldMove" \in DOMAIN ex'[p].result
                   /\ ex'[p].result.wouldMove = Matching(ex'[p].result.filters)
                \/ /\ "wouldDelete" \in DOMAIN ex'[p].result
                   /\ ex'[p].result.wouldDelete = Matching(ex'[p].result.filters)
             /\ UNCHANGED <<manifest, source, target, visible, targetExists>>]_vars

\* A dry run of bulk_move over all messages and a dry run of bulk_delete over
\* one sender have answered; the mail store and the manifest are as at the
\* start and the target mailbox does not exist.
C20_Witness ==
    /\ \E p \in Procs : /\ "wouldMove" \in DOMAIN ex[p].result
                        /\ ex[p].result.wouldMove = MaxUids
    /\ \E p \in Procs : /\ "wouldDelete" \in DOMAIN ex[p].result
                        /\ ex[p].result.wouldDelete = 2
    /\ source = Uids
    /\ target = <<>>
    /\ ~targetExists
    /\ manifest = EmptyManifest

\* C21: the log read back is the file; a step either leaves it as it is,
\* clears it to no steps and startedAt null, or appends one step with the
\* written text after the steps already there; startedAt is the time of the
\* first write after a clear and later writes keep it.
C21_SessionLog ==
    [][/\ log'.startedAt = 0 <=> log'.steps = <<>>
       /\ log'.steps # <<>> => log'.startedAt = log'.steps[1].time
       /\ logRead(log') = log'
       /\ \/ log' = log
          \/ log' = EmptyLog
          \/ \E step \in Steps :
                /\ log'.steps = Append(log.steps, [time |-> now', step |-> step])
                /\ log'.startedAt = IF log.steps = <<>> THEN now' ELSE log.startedAt]_vars

\* Two writes were cleared, then three steps written: the log holds these
\* three in call order, started at the first of them.
C21_Witness ==
    /\ Len(log.steps) = 3
    /\ [i \in 1..3 |-> log.steps[i].step] = <<"plan", "act", "done">>
    /\ log.steps[1].time = 2
    /\ log.startedAt = 2
    /\ log.steps[3].time = 4

\* Every operation record of the manifest.
AllRecords ==
    (IF manifest.current = Null THEN {} ELSE {manifest.current}) \cup Range(manifest.history)

\* C22: a chunk persisted as complete has, for every uid of its list, a
\* fingerprint of that uid whose identity key is in the target, and the uid is
\* no longer in the source; and a delete call is passed exactly the uids
\* whose fingerprints were fetched and verified for its sub-batch.
C22_CompleteChunkWasMoved ==
    /\ \A o \in AllRecords :
          \A k \in DOMAIN o.chunks :
              o.chunks[k].status = "complete" =>
                  \A i \in DOMAIN o.chunks[k].uids :
                      LET u == o.chunks[k].uids[i]
                      IN /\ \E f \in DOMAIN o.chunks[k].fingerprints :
                               /\ o.chunks[k].fingerprints[f].uid = u
                               /\ fingerprintToKey(o.chunks[k].fingerprints[f]) \in AllTargetKeys
                         /\ u \notin source
    /\ \A p \in Procs :
          ex[p].pc = "delete" =>
              Range(CurSubChunk(p)) = {ex[p].fingerprints[f].uid : f \in DOMAIN ex[p].fingerprints}


\* The place of a chunk status on the path pending -> copied_not_verified ->
\* verified_not_deleted -> complete.
StatusRank(status) ==
    CASE status = "pending" -> 0
      [] status = "copied_not_verified" -> 1
      [] status = "verified_not_deleted" -> 2
      [] OTHER -> 3

\* chunk status new may follow chunk status old.
StatusMayFollow(old, new) ==
    \/ new = old
    \/ /\ old \notin {"complete", "failed"}
       /\ \/ new = "failed"
          \/ StatusRank(new) > StatusRank(old)

\* C23: over the life of an operation the persisted status of each chunk only
\* moves forward along pending, copied_not_verified, verified_not_deleted,
\* complete, or to failed; it never moves backward and complete and failed
\* are never left.
C23_StatusOnlyForward ==
    [][(/\ manifest.current # Null
        /\ manifest'.current # Null
        /\ manifest'.current.operationId = manifest.current.operationId
        /\ DOMAIN manifest'.current.chunks = DOMAIN manifest.current.chunks)
       => \A k \in DOMAIN manifest.current.chunks :
              StatusMayFollow(manifest.current.chunks[k].status,
                              manifest'.current.chunks[k].status)]_vars


\* C24: whenever the persisted status of a chunk of the current operation is
\* pending, no message of that chunk has been deleted from the source.
C24_PendingIsUntouched ==
    manifest.current # Null =>
        \A k \in DOMAIN manifest.current.chunks :
            manifest.current.chunks[k].status = "pending" =>
                Range(manifest.current.chunks[k].uids) \subseteq source


\* The copy of the sub-batch p is at has been issued.
CopyIssued(p) == ex[p].pc \in {"copy", "verify", "delete"}

\* C25: in every state in which the copy of a sub-batch has been issued, the
\* chunk of that sub-batch in the manifest record of the operation holds a
\* fingerprint of every message of the sub-batch.
C25_FingerprintsBeforeCopy ==
    \A p \in Procs :
        CopyIssued(p) =>
            \E o \in OwnRecords(p, manifest) :
                \A u \in Range(CurSubChunk(p)) :
                    \E f \in DOMAIN o.chunks[ex[p].chunk + 1].fingerprints :
                        o.chunks[ex[p].chunk + 1].fingerprints[f].uid = u


\* Chunk k of operation o is the one at work: the chunks before it are
\* complete and the chunks after it untouched.
AtWorkOn(o, k) ==
    /\ \A j \in DOMAIN o.chunks : j < k => o.chunks[j].status = "complete"
    /\ \A j \in DOMAIN o.chunks :
          j > k => /\ o.chunks[j].status = "pending"
                   /\ o.chunks[j].fingerprints = <<>>
                   /\ Range(o.chunks[j].uids) \subseteq source
                   /\ Range(o.chunks[j].uids) \cap Range(target) = {}

\* C26: chunks are worked strictly in sequence: the operation in progress has
\* a chunk k with every chunk before it complete and every chunk after it
\* pending, without fingerprints, its messages still in the source and not
\* copied; an operation archived as failed has one failed chunk, the chunks
\* before it complete and the chunks after it pending.
C26_StrictlySequential ==
    /\ CurrentInProgress =>
          \E k \in DOMAIN manifest.current.chunks : AtWorkOn(manifest.current, k)
    /\ \A i \in DOMAIN manifest.history :
          manifest.history[i].status = "failed" =>
              \E k \in DOMAIN manifest.history[i].chunks :
                  /\ manifest.history[i].chunks[k].status = "failed"
                  /\ \A j \in DOMAIN manifest.history[i].chunks :
                        /\ j < k => manifest.history[i].chunks[j].status = "complete"
                        /\ j > k => manifest.history[i].chunks[j].status = "pending"


\* Executor p takes a step of its move.
ExecutorSteps(p) == ex[p].pc \in Running /\ ex'[p] # ex[p]

\* C27: a step of a move executor that writes the manifest writes the
\* operation this executor started, and an executor whose operation is no
\* longer the one in progress issues no copy and no delete.
C27_ExecutorIsolation ==
    [][\A p \in Procs :
          ExecutorSteps(p) =>
              /\ manifest' # manifest => StillInProgress(p)
              /\ ex'[p].pc \in {"copy", "delete"} => StillInProgress(p)]_vars


\* The number of uids in the first n chunks of operation o whose status is
\* in the set statuses.
RECURSIVE UidsWithStatus(_, _, _)
UidsWithStatus(o, n, statuses) ==
    IF n = 0 THEN 0
    ELSE UidsWithStatus(o, n - 1, statuses)
         + (IF o.chunks[n].status \in statuses THEN Len(o.chunks[n].uids) ELSE 0)

\* The summary of operation o is the rollup of its chunks by status.
SummaryIsRollup(o) ==
    LET n == Len(o.chunks)
        other == {"pending", "copied_not_verified", "verified_not_deleted"}
    IN /\ o.summary.emailsMoved = UidsWithStatus(o, n, {"complete"})
       /\ o.summary.emailsFailed = UidsWithStatus(o, n, {"failed"})
       /\ o.summary.emailsPending = UidsWithStatus(o, n, other)
       /\ o.summary.chunksComplete
             = Cardinality({k \in DOMAIN o.chunks : o.chunks[k].status = "complete"})
       /\ o.summary.emailsMoved + o.summary.emailsFailed + o.summary.emailsPending
             = o.totalUids

\* C28: in every manifest state with a current operation its summary is the
\* rollup of its chunks (moved, failed, pending, chunks complete, and their
\* sum is totalUids), and a write to the current operation changes the fields
\* of at most one chunk.
C28_RollupInvariant ==
    [][/\ manifest'.current # Null => SummaryIsRollup(manifest'.current)
       /\ (/\ manifest.current # Null
           /\ manifest'.current # Null
           /\ DOMAIN manifest'.current.chunks = DOMAIN manifest.current.chunks)
          => Cardinality({k \in DOMAIN manifest.current.chunks :
                             manifest'.current.chunks[k] # manifest.current.chunks[k]}) <= 1]_vars


\* C29: the current slot is empty or holds an operation in progress, every
\* history entry has a terminal status, and a step leaves the history as it
\* is or puts one record in front of it, dropping the entries beyond the
\* bound: no record of the history is modified.
C29_ManifestShape ==
    [][/\ manifest'.current # Null => manifest'.current.status = "in_progress"
       /\ \A i \in DOMAIN manifest'.history : manifest'.history[i].status \in Terminal
       /\ \/ manifest'.history = manifest.history
          \/ /\ Len(manifest'.history) = Min(Len(manifest.history) + 1, MAX_HISTORY)
             /\ \A i \in 2..Len(manifest'.history) :
                   manifest'.history[i] = manifest.history[i - 1]]_vars

\* The history is full of operations with chunks marked by updateChunk, and
\* one more operation is in progress: its end evicts the oldest.
C29_Witness ==
    /\ Len(manifest.history) = MAX_HISTORY
    /\ CurrentInProgress
    /\ \E i \in DOMAIN manifest.history :
          \E k \in DOMAIN manifest.history[i].chunks :
              manifest.history[i].chunks[k].status = "complete"
    /\ \E k \in DOMAIN manifest.current.chunks :
          manifest.current.chunks[k].status = "complete"


\* The failed count of a result: a complete result reports none.
FailedOf(result) == IF "failed" \in DOMAIN result THEN result.failed ELSE 0

\* Invocation p has returned the result of a move, complete or partial.
ReturnedMove(p) ==
    ex[p].pc = "done" /\ ex[p].result.status \in {"complete", "partial"}

\* C30: for every move that has returned a result, complete or partial, the
\* moved count of the result is summary.emailsMoved of its operation as
\* archived in the history, the failed count is its summary.emailsFailed, and
\* moved plus failed is at most the total.
C30_ReportMatchesManifest ==
    \A p \in Procs :
        ReturnedMove(p) =>
            /\ \E o \in OwnRecords(p, [current |-> Null, history |-> manifest.history]) :
                  /\ ex[p].result.moved = o.summary.emailsMoved
                  /\ FailedOf(ex[p].result) = o.summary.emailsFailed
            /\ ex[p].result.moved + FailedOf(ex[p].result) <= ex[p].operation.totalUids


\* The degradation retry of the chunk p is at begins in this step.
RetryBegins(p) ==
    /\ ex[p].pc = "verify"
    /\ ex[p].attemptChunkSize = CHUNK_SIZE
    /\ ex'[p].pc = "fetch"
    /\ ex'[p].attemptChunkSize = CHUNK_SIZE_RETRY

\* C31: when the retry of a chunk at the smaller size begins, the attempt at
\* the full size was one sub-batch and every message of the chunk is still in
\* the source; and the retry fetches and copies only messages that are still
\* in the source.
C31_RetryStartsUntouched ==
    [][\A p \in Procs :
          /\ RetryBegins(p) =>
                /\ Len(CurSubChunks(p)) = 1
                /\ Range(CurChunk(p).uids) \subseteq source'
          /\ (/\ ex'[p].pc \in {"fetch", "copy"}
              /\ ex'[p].attemptChunkSize = CHUNK_SIZE_RETRY)
             => Range(SubChunks(ex'[p].operation.chunks[ex'[p].chunk + 1].uids,
                                CHUNK_SIZE_RETRY)[ex'[p].sub + 1]) \subseteq source']_vars

\* The retry of a chunk of two messages is at its second sub-batch, the first
\* one deleted from the source.
C31_Witness ==
    \E p \in Procs :
        /\ ex[p].pc = "fetch"
        /\ ex[p].attemptChunkSize = CHUNK_SIZE_RETRY
        /\ ex[p].sub = 1
        /\ CurSubChunks(p)[1][1] \notin source


\* C32: in every manifest state each chunk holds at most one fingerprint per
\* uid of the chunk, so its fingerprint list is no longer than its uid list.
C32_OneFingerprintPerUid ==
    \A o \in AllRecords :
        \A k \in DOMAIN o.chunks :
            /\ Len(o.chunks[k].fingerprints) <= Len(o.chunks[k].uids)
            /\ \A f, g \in DOMAIN o.chunks[k].fingerprints :
                  o.chunks[k].fingerprints[f].uid = o.chunks[k].fingerprints[g].uid => f = g


\* C33: withRetry calls the action once per attempt, up to the first attempt
\* that succeeds or fails with a non-transient error and at most maxAttempts
\* times; it returns the value of the successful attempt, rethrows a
\* non-transient error after that attempt, rethrows the last transient error
\* after maxAttempts attempts, and does not write the manifest.
C33_RetryPolicy ==
    [][/\ manifest' = manifest
       /\ retry'.pc # "idle" =>
             /\ Len(retry'.calls) <= retry'.maxAttempts
             /\ \A i \in DOMAIN retry'.calls :
                   i < Len(retry'.calls) =>
                       retry'.calls[i] \in RetryErrors /\ isTransient(retry'.calls[i])
             /\ retry'.pc = "calling" =>
                   /\ Len(retry'.calls) = retry'.attempt - 1
                   /\ Len(retry'.calls) < retry'.maxAttempts
                   /\ \A i \in DOMAIN retry'.calls : retry'.calls[i] \in RetryErrors
             /\ retry'.pc = "returned" =>
                   /\ retry'.calls[Len(retry'.calls)] \in RetryValues
                   /\ retry'.result = retry'.calls[Len(retry'.calls)]
             /\ retry'.pc = "threw" =>
                   /\ retry'.calls[Len(retry'.calls)] \in RetryErrors
                   /\ retry'.result = retry'.calls[Len(retry'.calls)]
                   /\ \/ ~isTransient(retry'.result)
                      \/ Len(retry'.calls) = retry'.maxAttempts]_vars

\* A run with the default of 3 attempts has failed twice with transient
\* errors and was then stopped by a non-transient one.
C33_Witness ==
    /\ retry.pc = "threw"
    /\ retry.maxAttempts = DefaultMaxAttempts
    /\ retry.calls = <<"ECONNRESET", "NO ", "Mailbox does not exist">>


\* How far an executor is: chunk, attempt size, sub-batch, step of the
\* sub-batch and attempt of the call, in this order.
StepOf(pc) ==
    CASE pc = "fetch" -> 0 [] pc = "copy" -> 1 [] pc = "verify" -> 2 [] OTHER -> 3

Progress(e) ==
    ((((e.chunk * 2 + (IF e.attemptChunkSize = CHUNK_SIZE THEN 0 ELSE 1)) * CHUNK_SIZE
         + e.sub) * 4 + StepOf(e.pc)) * (DefaultMaxAttempts + 1)) + e.attempt

\* C34: a move terminates when every mail-store call returns: every step of
\* an executor takes it further (next attempt of the call, next step, next
\* sub-batch, the smaller size, next chunk) or ends the move, within the
\* chunks of its operation, the two attempt sizes and maxAttempts attempts
\* per call.
C34_MoveTerminates ==
    [][\A p \in Procs :
          (ex[p].pc \in Running /\ ex'[p] # ex[p]) =>
              \/ ex'[p].pc \in {"done", "threw", "crashed"}
              \/ /\ ex'[p].pc \in Running
                 /\ Progress(ex'[p]) > Progress(ex[p])
                 /\ ex'[p].chunk < Len(ex'[p].operation.chunks)
                 /\ ex'[p].attemptChunkSize \in {CHUNK_SIZE, CHUNK_SIZE_RETRY}
                 /\ ex'[p].sub < CHUNK_SIZE
                 /\ ex'[p].attempt \in 1..DefaultMaxAttempts]_vars

\* After two failed calls that were retried, the last chunk failed
\* verification at both sizes and the move returned partial.
C34_Witness ==
    /\ ex[1].pc = "done"
    /\ ex[1].result.status = "partial"
    /\ ex[1].result.moved = 4
    /\ faults = MaxFaults


\* C35: a crash during a manifest write leaves the file with the complete
\* previous content or the complete new content: when the process of a move
\* stops while its operation is in progress, the manifest read back
\* afterwards still holds the operation in progress and the history.
C35_AtomicManifestWrite ==
    [][\A p \in Procs :
          (/\ CurrentInProgress
           /\ ex[p].pc \in Running
           /\ ex'[p].pc = "crashed")
          => /\ manifest'.current # Null
             /\ manifest'.current.operationId = manifest.current.operationId
             /\ manifest'.current.status = "in_progress"
             /\ manifest'.history = manifest.history]_vars


\* C36: a move request that is refused with the conflict error leaves the
\* mail store as it was: no message copied or deleted, no mailbox created.
C36_RefusedMoveTouchesNothing ==
    [][\A p \in Procs :
          (/\ ex[p].pc = "idle"
           /\ ex'[p].pc = "threw"
           /\ ex'[p].result.error = ConflictError)
          => /\ source' = source
             /\ target' = target
             /\ targetExists' = targetExists
             /\ otherExists' = otherExists]_vars


\* C37: the operationId values of the current operation and of the history
\* entries are pairwise distinct.
C37_UniqueOperationIds ==
    /\ \A i, j \in DOMAIN manifest.history :
          manifest.history[i].operationId = manifest.history[j].operationId => i = j
    /\ manifest.current # Null =>
          \A i \in DOMAIN manifest.history :
              manifest.history[i].operationId # manifest.current.operationId


\* The text of a field that is present, nothing for one that is missing.
Present(text) == IF text = NullText THEN EmptyText ELSE text

\* C38: buildFingerprint returns a fingerprint for every envelope, also one
\* without Message-ID and with a missing or unparseable date, and never
\* throws; the composite key is made of the fields that are present.
C38_FingerprintingIsTotal ==
    fpCall.out.status # "none" =>
        /\ fpCall.out.status \in {"returned", "checked"}
        /\ fpCall.out.fingerprint.uid = fpCall.msg.uid
        /\ fpCall.msg.envelope.date \in {NullText, InvalidDate} =>
              fpCall.out.fingerprint.fallback
                 = JoinBar(Present(fpCall.msg.envelope.from), EmptyText,
                           Present(fpCall.msg.envelope.subject))


\* The identity key the message of the buildFingerprint call should get: its
\* Message-ID when it has one, else sender|timestamp|subject.
ExpectedKey ==
    LET e == fpCall.msg.envelope
    IN IF e.messageId # NullText THEN e.messageId
       ELSE JoinBar(Present(e.from),
                    IF e.date = NullText THEN EmptyText ELSE <<"iso">> \o e.date,
                    Present(e.subject))

\* The identity keys of the entries of a target window, each the Message-ID
\* of the entry when it has one, else its sender|timestamp|subject.
WindowKeys(w) ==
    {IF MessageOf(w[i]).envelope.messageId # NullText
     THEN MessageOf(w[i]).envelope.messageId
     ELSE JoinBar(MessageOf(w[i]).envelope.from,
                  IF MessageOf(w[i]).envelope.date = NullText THEN EmptyText
                  ELSE <<"iso">> \o MessageOf(w[i]).envelope.date,
                  MessageOf(w[i]).envelope.subject) : i \in DOMAIN w}

\* C39: the identity key of a fingerprint is the Message-ID of the message
\* when it has one and the key sender|timestamp|subject otherwise, and the
\* verification finds a fingerprint exactly when its key is among the keys of
\* the scanned target entries.
C39_IdentityKey ==
    /\ fpCall.out.status \in {"returned", "checked"} =>
          fingerprintToKey(fpCall.out.fingerprint) = ExpectedKey
    /\ fpCall.out.status = "checked" =>
          /\ fpCall.out.verification.verified <=> ExpectedKey \in WindowKeys(fpCall.out.window)
          /\ fpCall.out.verification.found
                = (IF ExpectedKey \in WindowKeys(fpCall.out.window) THEN 1 ELSE 0)
          /\ fpCall.out.verification.expected = 1

\* A message without Message-ID was found in the target by its composite key,
\* behind an entry that has a Message-ID.
C39_Witness ==
    /\ fpCall.out.status = "checked"
    /\ fpCall.msg.envelope.messageId = NullText
    /\ fpCall.out.window = <<3, 1>> \/ fpCall.out.window = <<2, 3>>
    /\ fpCall.out.verification.verified


\* The uid lists of the first n chunks, one after the other.
RECURSIVE ConcatUids(_, _)
ConcatUids(chunks, n) ==
    IF n = 0 THEN <<>> ELSE ConcatUids(chunks, n - 1) \o chunks[n].uids

\* chunks is the partition of the list uids into chunks of CHUNK_SIZE, all
\* pending and without fingerprints.
IsPartition(chunks, uids) ==
    LET m == Len(chunks)
    IN /\ m * CHUNK_SIZE >= Len(uids)
       /\ (m - 1) * CHUNK_SIZE < Len(uids) \/ (m = 0 /\ Len(uids) = 0)
       /\ \A k \in 1..m :
             /\ chunks[k].index = k - 1
             /\ k < m => Len(chunks[k].uids) = CHUNK_SIZE
             /\ k = m => Len(chunks[k].uids) \in 1..CHUNK_SIZE
             /\ chunks[k].status = "pending"
             /\ chunks[k].fingerprints = <<>>
       /\ ConcatUids(chunks, m) = uids

\* C40: the operation startOperation writes holds the uid list it was given
\* cut into ceil(n / CHUNK_SIZE) chunks with indices 0, 1, 2, ...: every chunk
\* but the last of CHUNK_SIZE uids, the last of 1 to CHUNK_SIZE, their
\* concatenation the list, each pending and without fingerprints.
C40_ChunkPartition ==
    [][\A p \in Procs :
          (ex[p].pc = "idle" /\ ex'[p].pc = "fetch") =>
              /\ manifest'.current # Null
              /\ manifest'.current.totalUids = Len(ex'[p].uids)
              /\ IsPartition(manifest'.current.chunks, ex'[p].uids)]_vars

\* An operation over five uids was started: chunks of 2, 2 and 1.
C40_Witness ==
    /\ ex[1].pc = "fetch"
    /\ ex[1].uids = <<1, 2, 3, 4, 5>>
    /\ manifest.current # Null
    /\ Len(manifest.current.chunks) = 3
    /\ manifest.current.chunks[3].uids = <<5>>
    /\ manifest.current.chunks[3].index = 2
    /\ manifest.current.chunks[1].fingerprints = <<>>

====
